---- MODULE Spec2Model ----
(***************************************************************************)
(* Model of k8s-platform-lcm: the image-reference parser                   *)
(* (internal/kubernetes/k8s.go, ImageStringToContainerStruct), the         *)
(* inventory of running containers (GetContainersFromNamespaces and its    *)
(* helpers) and the start-up of cmd/lcm/main.go (flags, log level).        *)
(*                                                                         *)
(* A Go string is a sequence of one-character strings.                     *)
(***************************************************************************)
EXTENDS Integers, Sequences, FiniteSets, TLC

\* Longest input string handed to the parser in SpecParse.
MaxLen == 6
\* Longest namespace list the configuration requests.
MaxRequested == 3

\* The characters input strings are built from: a name character, the
\* three separators the parser looks at, and the digits of ":443".
Alphabet == {"a", ":", ".", "/", "4", "3"}

Strings == UNION {[1..n -> Alphabet] : n \in 0..MaxLen}

\* Longer references: host/name:tag, the same with the default port, one
\* with another port, and one where removing ":443" leaves a new ":443".
Scenarios ==
    { <<"a", ".", "a", "/", "a", ":", "3", ".", "4">>,
      <<"a", ".", "a", ":", "4", "4", "3", "/", "a", ":", "3", ".", "4">>,
      <<"a", ".", "a", ":", "3", "4", "/", "a", ":", "3", ".", "4">>,
      <<":", ":", "4", ":", "4", "4", "3", "4", "3">> }

----------------------------------------------------------------------------
\* Go's strings package, as the parser uses it.

\* strings.Count(s, c) for a one-character c
RECURSIVE Count(_, _)
Count(s, c) ==
    IF s = <<>> THEN 0
    ELSE (IF Head(s) = c THEN 1 ELSE 0) + Count(Tail(s), c)

\* strings.Contains(s, c) for a one-character c
Contains(s, c) == \E i \in 1..Len(s) : s[i] = c

\* position of the first c in s, 0 when there is none
Index(s, c) ==
    IF Contains(s, c)
    THEN CHOOSE i \in 1..Len(s) : s[i] = c /\ \A j \in 1..(i - 1) : s[j] # c
    ELSE 0

HasPrefix(s, p) == Len(s) >= Len(p) /\ SubSeq(s, 1, Len(p)) = p

\* strings.Replace(s, old, "", -1): non-overlapping matches, left to right
RECURSIVE Replace(_, _)
Replace(s, old) ==
    IF s = <<>> THEN <<>>
    ELSE IF HasPrefix(s, old)
         THEN Replace(SubSeq(s, Len(old) + 1, Len(s)), old)
         ELSE <<Head(s)>> \o Replace(Tail(s), old)

\* strings.Split(s, c) for a one-character c
RECURSIVE Split(_, _)
Split(s, c) ==
    IF ~Contains(s, c) THEN <<s>>
    ELSE LET i == Index(s, c)
         IN  <<SubSeq(s, 1, i - 1)>> \o Split(SubSeq(s, i + 1, Len(s)), c)

\* strings.SplitN(s, c, 2) for a one-character c
SplitN2(s, c) ==
    IF ~Contains(s, c) THEN <<s>>
    ELSE LET i == Index(s, c)
         IN  <<SubSeq(s, 1, i - 1), SubSeq(s, i + 1, Len(s))>>

----------------------------------------------------------------------------
\* ImageStringToContainerStruct

\* Container{}: the zero value of the struct
EmptyContainer == [FullPath |-> <<>>, URL |-> <<>>, Name |-> <<>>, Version |-> <<>>]

NoError == "nil"
PortError == "We do not support URLs with ports"

\* the version of a reference that carries no tag
DefaultVersion == <<"0">>

\* strings.Replace(containerString, ":443", "", -1)
StripPort(containerString) == Replace(containerString, <<":", "4", "4", "3">>)

TooManyColons_Three(containerString) == Count(containerString, ":") >= 3

\* strings.Count(containerString, ":") >= 2
TooManyColons(containerString) == Count(containerString, ":") >= 2

HasHostname_Slash(containerString) == Contains(containerString, "/")

\* strings.Contains(containerString, "."): a dot means a hostname in front
HasHostname(containerString) == Contains(containerString, ".")

\* What one call does: it returns (container, err), or it panics on the
\* index urlAndImage[1] of a one-element slice (panicked: nothing returned).
ParseResult(c, e, p) == [container |-> c, err |-> e, panicked |-> p]

ImageStringToContainerStruct_FullPathAfterStrip(containerString) ==
    LET stripped == StripPort(containerString)
        fullPath == stripped
    IN  IF TooManyColons(stripped)
        THEN ParseResult(EmptyContainer, PortError, FALSE)
        ELSE LET hasVersion == Contains(stripped, ":")
                 subAndVersion == Split(stripped, ":")
                 version == IF hasVersion THEN subAndVersion[2] ELSE DefaultVersion
                 working == IF hasVersion THEN subAndVersion[1] ELSE stripped
                 name == IF hasVersion THEN subAndVersion[1] ELSE containerString
                 urlAndImage == SplitN2(working, "/")
             IN  IF HasHostname(working)
                 THEN IF Len(urlAndImage) < 2
                      THEN ParseResult(EmptyContainer, NoError, TRUE)
                      ELSE ParseResult([FullPath |-> fullPath,
                                        URL |-> urlAndImage[1],
                                        Name |-> urlAndImage[2],
                                        Version |-> version], NoError, FALSE)
                 ELSE ParseResult([FullPath |-> fullPath,
                                   URL |-> <<>>,
                                   Name |-> name,
                                   Version |-> version], NoError, FALSE)

ImageStringToContainerStruct(containerString) ==
    LET fullPath == containerString
        stripped == StripPort(containerString)
    IN  IF TooManyColons(stripped)
        THEN ParseResult(EmptyContainer, PortError, FALSE)
        ELSE LET hasVersion == Contains(stripped, ":")
                 subAndVersion == Split(stripped, ":")
                 version == IF hasVersion THEN subAndVersion[2] ELSE DefaultVersion
                 working == IF hasVersion THEN subAndVersion[1] ELSE stripped
                 name == IF hasVersion THEN subAndVersion[1] ELSE containerString
                 urlAndImage == SplitN2(working, "/")
             IN  IF HasHostname(working)
                 THEN IF Len(urlAndImage) < 2
                      THEN ParseResult(EmptyContainer, NoError, TRUE)
                      ELSE ParseResult([FullPath |-> fullPath,
                                        URL |-> urlAndImage[1],
                                        Name |-> urlAndImage[2],
                                        Version |-> version], NoError, FALSE)
                 ELSE ParseResult([FullPath |-> fullPath,
                                   URL |-> <<>>,
                                   Name |-> name,
                                   Version |-> version], NoError, FALSE)

----------------------------------------------------------------------------
\* State

VARIABLES
    raw,        \* SpecParse: the string handed to ImageStringToContainerStruct
    parsePc,    \* SpecParse: "ready", "returned" or "panic"
    result,     \* SpecParse: what the call produced
    pc,         \* position of main
    Verbose,    \* config.ConfigFlags.Verbose
    Debug,      \* config.ConfigFlags.Debug
    level,      \* the logger's level
    requested,  \* the namespaces argument of GetContainersFromNamespaces
    namespaces, \* the namespaces after getNamespaces
    idx,        \* position of the loop over namespaces
    nsContainers,       \* getRunningContainers: its local map containers
    runningContainers,  \* GetContainersFromNamespaces: the map runningContainers
    todo,       \* keys of runningContainers the range loop has not visited
    parsed,     \* strings handed to ImageStringToContainerStruct so far
    containers, \* GetContainersFromNamespaces: the slice containers
    returned,   \* whether GetContainersFromNamespaces returned its slice
    seen,       \* how often the cluster reported each image (capped at 2)
    callLog     \* the calls made to the cluster, in order

vars == <<raw, parsePc, result, pc, Verbose, Debug, level, requested,
          namespaces, idx, nsContainers, runningContainers, todo,
          parsed, containers, returned, seen, callLog>>

parseVars == <<raw, parsePc, result>>
flagVars == <<Verbose, Debug, level>>
invVars == <<requested, namespaces, idx, nsContainers,
             runningContainers, todo, parsed, containers, returned, seen,
             callLog>>

----------------------------------------------------------------------------
\* The cluster, as the client sees it

\* namespace names the configuration may ask for ("ghost" is not in the cluster)
RequestNames == {"default", "ghost"}
\* namespaces the cluster holds
ClusterNames == {"default", "kube-system"}

RequestedLists == UNION {[1..n -> RequestNames] : n \in 0..MaxRequested}

\* Namespaces().List responses: the items, each with its object meta name
NamespaceItemLists ==
    {s \in UNION {[1..n -> [name : ClusterNames]] : n \in 0..Cardinality(ClusterNames)} :
        \A i, j \in 1..Len(s) : i # j => s[i] # s[j]}

\* image strings the pods of the cluster run
ImagePool ==
    { <<"a">>,                          \* bare name
      <<"a", ":", "4", "4", "3">>,      \* the same with the default port
      <<"a", ":", "3", ":", "3">>,      \* two colons: rejected
      <<"a", ".", "a">> }               \* a dot and no slash

Min(a, b) == IF a < b THEN a ELSE b

----------------------------------------------------------------------------
\* main: initFlags, initLogging

\* what kingpin leaves in config.ConfigFlags
initFlags ==
    /\ pc = "initFlags"
    /\ \E v, d \in BOOLEAN :
          /\ Verbose' = v
          /\ Debug' = d
    /\ pc' = "initLogging"
    /\ UNCHANGED <<level, parseVars, invVars>>

\* the level initLogging leaves: Error, Info if Verbose, else Debug if Debug
LogLevel(v, d) ==
    IF v THEN "info" ELSE IF d THEN "debug" ELSE "error"

initLogging ==
    /\ pc = "initLogging"
    /\ level' = LogLevel(Verbose, Debug)
    /\ pc' = "Execute"
    /\ UNCHANGED <<Verbose, Debug, parseVars, invVars>>

\* internal.Execute: the inventory is asked for the configured namespaces
Execute ==
    /\ pc = "Execute"
    /\ \E ns \in RequestedLists : requested' = ns
    /\ pc' = "getKubernetesClient"
    /\ UNCHANGED <<parseVars, flagVars, namespaces, idx, nsContainers,
                   runningContainers, todo, parsed, containers, returned, seen,
                   callLog>>

----------------------------------------------------------------------------
\* GetContainersFromNamespaces

OnError_LogOnly(ok, next) == next

\* if err != nil { log.WithError(err).Fatal(...) }: Fatal exits the process
OnError(ok, next) == IF ok THEN next ELSE "fatal"

\* one call to the cluster: what was asked, whether it succeeded, the items
\* a successful Namespaces().List returned
Call(op, arg, ok, items) == [op |-> op, arg |-> arg, ok |-> ok, items |-> items]

getKubernetesClient ==
    /\ pc = "getKubernetesClient"
    /\ \E useLocally, ok \in BOOLEAN : pc' = OnError(ok, "getNamespaces")
    /\ UNCHANGED <<parseVars, flagVars, invVars>>

NeedDiscovery_Always(ns) == TRUE

\* len(namespaces) == 0
NeedDiscovery(ns) == Len(ns) = 0

\* the names of the items, in order
getAllNamespaces(items) == [i \in 1..Len(items) |-> items[i].name]

getNamespaces ==
    /\ pc = "getNamespaces"
    /\ IF NeedDiscovery(requested)
       THEN \/ \E items \in NamespaceItemLists :
                  /\ callLog' = Append(callLog,
                        Call("ListNamespaces", "", TRUE, items))
                  /\ namespaces' = getAllNamespaces(items)
                  /\ pc' = OnError(TRUE, "loop")
            \/ /\ callLog' = Append(callLog, Call("ListNamespaces", "", FALSE, <<>>))
               /\ namespaces' = <<>>
               /\ pc' = OnError(FALSE, "loop")
       ELSE /\ namespaces' = requested
            /\ pc' = "loop"
            /\ UNCHANGED callLog
    /\ idx' = 1
    /\ UNCHANGED <<parseVars, flagVars, requested, nsContainers,
                   runningContainers, todo, parsed, containers, returned, seen>>

\* getRunningContainers: the Pods(namespace).List call
ListPods ==
    /\ pc = "loop"
    /\ idx <= Len(namespaces)
    /\ \E ok \in BOOLEAN :
          /\ callLog' = Append(callLog, Call("ListPods", namespaces[idx], ok, <<>>))
          /\ pc' = OnError(ok, "pods")
    /\ nsContainers' = {}
    /\ UNCHANGED <<parseVars, flagVars, requested, namespaces, idx,
                   runningContainers, todo, parsed, containers, returned, seen>>

\* containers[container.Image] = true, and the count of the report
Report(image) ==
    /\ nsContainers' = nsContainers \cup {image}
    /\ seen' = [seen EXCEPT ![image] = Min(2, seen[image] + 1)]

\* getRunningContainers: the next item of pods.Items (a response holds any
\* number of pods, a pod any number of containers and init containers)
NextPod ==
    /\ pc = "pods"
    /\ pc' = "pod.Containers"
    /\ UNCHANGED <<parseVars, flagVars, invVars>>

\* one iteration of for _, container := range pod.Spec.Containers
WalkContainer ==
    /\ pc = "pod.Containers"
    /\ \E image \in ImagePool : Report(image)
    /\ UNCHANGED <<parseVars, flagVars, pc, requested, namespaces, idx,
                   runningContainers, todo, parsed, containers, returned, callLog>>

\* the containers of the pod are done, its init containers follow
EndContainers ==
    /\ pc = "pod.Containers"
    /\ pc' = "pod.InitContainers"
    /\ UNCHANGED <<parseVars, flagVars, invVars>>

\* one iteration of for _, container := range pod.Spec.InitContainers
WalkInitContainer ==
    /\ pc = "pod.InitContainers"
    /\ \E image \in ImagePool : Report(image)
    /\ UNCHANGED <<parseVars, flagVars, pc, requested, namespaces, idx,
                   runningContainers, todo, parsed, containers, returned, callLog>>

\* the pod is done
EndPod ==
    /\ pc = "pod.InitContainers"
    /\ pc' = "pods"
    /\ UNCHANGED <<parseVars, flagVars, invVars>>

\* getRunningContainers returns; its keys are copied into runningContainers
MergeNamespace ==
    /\ pc = "pods"
    /\ runningContainers' = runningContainers \cup nsContainers
    /\ nsContainers' = {}
    /\ idx' = idx + 1
    /\ pc' = "loop"
    /\ UNCHANGED <<parseVars, flagVars, requested, namespaces, todo, parsed,
                   containers, returned, seen, callLog>>

\* the loop over namespaces is over: containers := []Container{}
StartRange ==
    /\ pc = "loop"
    /\ idx > Len(namespaces)
    /\ containers' = <<>>
    /\ todo' = runningContainers
    /\ pc' = "range"
    /\ UNCHANGED <<parseVars, flagVars, requested, namespaces, idx, nsContainers, runningContainers, parsed, returned, seen,
                   callLog>>

AppendParsed_Always(cs, r) == Append(cs, r.container)

\* if err == nil { containers = append(containers, container) }
AppendParsed(cs, r) == IF r.err = NoError THEN Append(cs, r.container) ELSE cs

\* one iteration of for key := range runningContainers (any order)
ParseKey ==
    /\ pc = "range"
    /\ \E key \in todo :
          LET r == ImageStringToContainerStruct(key)
          IN  /\ todo' = todo \ {key}
              /\ parsed' = parsed \cup {key}
              /\ IF r.panicked
                 THEN /\ pc' = "panic"
                      /\ UNCHANGED containers
                 ELSE /\ pc' = "range"
                      /\ containers' = AppendParsed(containers, r)
    /\ UNCHANGED <<parseVars, flagVars, requested, namespaces, idx, nsContainers, runningContainers, returned, seen, callLog>>

\* return containers
Return ==
    /\ pc = "range"
    /\ todo = {}
    /\ returned' = TRUE
    /\ pc' = "done"
    /\ UNCHANGED <<parseVars, flagVars, requested, namespaces, idx, nsContainers, runningContainers, todo, parsed, containers,
                   seen, callLog>>

----------------------------------------------------------------------------
\* One call of the parser on any bounded string

ParseCall ==
    /\ parsePc = "ready"
    /\ result' = ImageStringToContainerStruct(raw)
    /\ parsePc' = IF result'.panicked THEN "panic" ELSE "returned"
    /\ UNCHANGED <<raw, pc, flagVars, invVars>>

----------------------------------------------------------------------------
\* Specifications

InvInit ==
    /\ requested = <<>>
    /\ namespaces = <<>>
    /\ idx = 1
    /\ nsContainers = {}
    /\ runningContainers = {}
    /\ todo = {}
    /\ parsed = {}
    /\ containers = <<>>
    /\ returned = FALSE
    /\ seen = [img \in ImagePool |-> 0]
    /\ callLog = <<>>

FlagInit ==
    /\ Verbose = FALSE
    /\ Debug = FALSE
    /\ level = "info"

\* main, from its first statement
Init ==
    /\ pc = "initFlags"
    /\ FlagInit
    /\ InvInit
    /\ raw = <<>>
    /\ parsePc = "idle"
    /\ result = ParseResult(EmptyContainer, NoError, FALSE)

Next ==
    \/ initFlags
    \/ initLogging
    \/ Execute
    \/ getKubernetesClient
    \/ getNamespaces
    \/ ListPods
    \/ NextPod
    \/ WalkContainer
    \/ EndContainers
    \/ WalkInitContainer
    \/ EndPod
    \/ MergeNamespace
    \/ StartRange
    \/ ParseKey
    \/ Return

Spec == Init /\ [][Next]_vars

\* the parser alone, on every string of at most MaxLen characters and on
\* the longer scenarios
ParseInit ==
    /\ raw \in Strings \cup Scenarios
    /\ parsePc = "ready"
    /\ result = ParseResult(EmptyContainer, NoError, FALSE)
    /\ pc = "idle"
    /\ FlagInit
    /\ InvInit

ParseNext == ParseCall

SpecParse == ParseInit /\ [][ParseNext]_vars

----------------------------------------------------------------------------
\* Properties of the parser (SpecParse)

Called == parsePc \in {"returned", "panic"}
Succeeded == parsePc = "returned" /\ result.err = NoError
Failed == parsePc = "returned" /\ result.err = PortError

\* the part of the reference in front of its tag: what is left of the colon
\* once ":443" is stripped (everything when no colon is left)
NamePart(s) == Split(StripPort(s), ":")[1]

\* no dot in front of the first "/" of s (in s, when it has no "/")
NoDotBeforeFirstSlash(s) == ~Contains(SplitN2(s, "/")[1], ".")

\* C1: every call ends by returning a Container record or the error
\* "We do not support URLs with ports"; no call ends in a crash.
C1_ParserIsTotal ==
    Called => parsePc = "returned" /\ result.err \in {NoError, PortError}

\* C2 as stated: the Container returned for raw has FullPath = raw, on
\* success and on the unsupported-port error alike.
C2_FullPathAlwaysRaw ==
    parsePc = "returned" => result.container.FullPath = raw

\* C2 as amended: a Container returned without error has FullPath = raw;
\* the Container returned with the unsupported-port error is the zero
\* value, its FullPath empty.
C2_FullPathOnSuccess ==
    /\ Succeeded => result.container.FullPath = raw
    /\ Failed => result.container = EmptyContainer

\* a successful parse of a reference that lost a ":443" keeps the original
C2_Witness ==
    /\ Succeeded
    /\ StripPort(raw) # raw
    /\ result.container.FullPath = raw

\* C3: every Container returned without error has a non-empty FullPath,
\* a non-empty Name and a non-empty Version.
C3_FieldsNonEmpty ==
    Succeeded => /\ result.container.FullPath # <<>>
                 /\ result.container.Name # <<>>
                 /\ result.container.Version # <<>>

\* C4 as stated: with at most one colon left after ":443" is stripped and
\* no dot before the first "/", the parse succeeds and URL is empty.
C4_NoDotBeforeSlashNoURL ==
    (Called /\ Count(StripPort(raw), ":") <= 1 /\ NoDotBeforeFirstSlash(raw))
        => Succeeded /\ result.container.URL = <<>>

\* C4 as amended: with at most one colon left after ":443" is stripped and
\* no dot anywhere in front of that colon (anywhere in the string when no
\* colon is left), the parse succeeds and URL is empty.
C4_NoDotInNameNoURL ==
    (Called /\ Count(StripPort(raw), ":") <= 1 /\ ~Contains(NamePart(raw), "."))
        => Succeeded /\ result.container.URL = <<>>

\* a path with a slash and a dotted tag parses to an empty URL
C4_Witness ==
    /\ Succeeded
    /\ Count(StripPort(raw), ":") = 1
    /\ ~Contains(NamePart(raw), ".")
    /\ Contains(NamePart(raw), "/")
    /\ Contains(raw, ".")
    /\ result.container.URL = <<>>

\* C5: a string with two or more colons left after ":443" is removed (Go's
\* Replace: one pass, left to right) fails with the unsupported-port error
\* and yields the zero Container; one with fewer colons left never does.
C5_PortErrorIffTwoColons ==
    Called =>
        IF Count(StripPort(raw), ":") >= 2
        THEN Failed /\ result.container = EmptyContainer
        ELSE ~Failed

\* a reference with ":443" and two more colons is rejected
C5_Witness ==
    /\ Failed
    /\ StripPort(raw) # raw
    /\ Count(StripPort(raw), ":") = 2

----------------------------------------------------------------------------
\* Properties of the inventory and of the start-up (Spec)

Parses(key) ==
    LET r == ImageStringToContainerStruct(key)
    IN  ~r.panicked /\ r.err = NoError

Rejected(key) ==
    LET r == ImageStringToContainerStruct(key)
    IN  ~r.panicked /\ r.err = PortError

RecordsOf(image) == {i \in 1..Len(containers) : containers[i].FullPath = image}

FailedCalls == {i \in 1..Len(callLog) : ~callLog[i].ok}

CallsOf(op) == {i \in 1..Len(callLog) : callLog[i].op = op}

\* C6: the returned list holds no two records with the same FullPath, and
\* exactly one record for every reported image string that parses, however
\* often the cluster reported it.
C6_OneRecordPerImage ==
    returned =>
        /\ \A i, j \in 1..Len(containers) :
              i # j => containers[i].FullPath # containers[j].FullPath
        /\ \A image \in ImagePool :
              (seen[image] >= 1 /\ Parses(image)) => Cardinality(RecordsOf(image)) = 1

\* an image reported more than once, over two namespaces, has one record
C6_Witness ==
    /\ returned
    /\ Cardinality(CallsOf("ListPods")) >= 2
    /\ \E image \in ImagePool :
          seen[image] = 2 /\ Cardinality(RecordsOf(image)) = 1

\* C7: when every cluster call succeeded and every collected string either
\* parses or is rejected with the unsupported-port error, the range loop
\* never crashes, hands every key to the parser once, and the list returned
\* holds exactly one record for each string that parses and none for a
\* rejected one.
C7_RejectedOnlyDropped ==
    (/\ pc \in {"range", "done", "panic"}
     /\ FailedCalls = {}
     /\ \A key \in runningContainers : Parses(key) \/ Rejected(key))
    => /\ pc # "panic"
       /\ pc = "range" => parsed = runningContainers \ todo
       /\ pc = "done" =>
            /\ returned
            /\ Len(containers) = Cardinality({key \in runningContainers : Parses(key)})
            /\ {containers[i].FullPath : i \in 1..Len(containers)}
                  = {key \in runningContainers : Parses(key)}

\* rejected strings among parsing ones, and the list is returned
C7_Witness ==
    /\ pc = "done"
    /\ returned
    /\ \E key \in runningContainers : Rejected(key)
    /\ Cardinality({key \in runningContainers : Parses(key)}) >= 2
    /\ Cardinality(CallsOf("ListPods")) >= 2
    /\ \A key \in runningContainers : Parses(key) \/ Rejected(key)
    /\ Len(containers) = Cardinality({key \in runningContainers : Parses(key)})

\* C8: a failed cluster call is the last call ever made, and after it the
\* program is dead: nothing was parsed, nothing is parsed, no list is built
\* or returned.
C8_FailFast ==
    \A i \in FailedCalls :
        /\ i = Len(callLog)
        /\ pc = "fatal"
        /\ parsed = {}
        /\ containers = <<>>
        /\ ~returned

\* the pod listing of a namespace failed after images were collected and
\* with namespaces still to go
C8_Witness ==
    /\ pc = "fatal"
    /\ FailedCalls # {}
    /\ callLog[Len(callLog)].op = "ListPods"
    /\ runningContainers # {}
    /\ idx < Len(namespaces)
    /\ ~returned

Resolved == pc \in {"loop", "pods", "pod.Containers", "pod.InitContainers",
                    "range", "done", "panic"}

\* the namespaces of the pod listings, in the order of the calls
PodCallArgs ==
    LET F[i \in 0..Len(callLog)] ==
            IF i = 0 THEN <<>>
            ELSE IF callLog[i].op = "ListPods"
                 THEN Append(F[i - 1], callLog[i].arg)
                 ELSE F[i - 1]
    IN  F[Len(callLog)]

\* C9: a non-empty requested sequence is used unchanged and the namespaces
\* are never listed; an empty one lists them exactly once and uses the name
\* of every item found; pods are listed for the namespaces of the resolved
\* sequence, in order, and for no other.
C9_NamespaceResolution ==
    /\ requested # <<>> =>
          /\ CallsOf("ListNamespaces") = {}
          /\ Resolved => namespaces = requested
    /\ (requested = <<>> /\ Resolved) =>
          /\ CallsOf("ListNamespaces") = {1}
          /\ callLog[1].ok
          /\ Len(namespaces) = Len(callLog[1].items)
          /\ \A i \in 1..Len(namespaces) : namespaces[i] = callLog[1].items[i].name
    /\ Cardinality(CallsOf("ListNamespaces")) <= 1
    /\ Len(PodCallArgs) <= Len(namespaces)
    /\ \A j \in 1..Len(PodCallArgs) : PodCallArgs[j] = namespaces[j]

\* discovery: both namespaces of the cluster found, listed once, walked
C9_Witness ==
    /\ pc = "done"
    /\ requested = <<>>
    /\ Len(namespaces) = 2
    /\ CallsOf("ListNamespaces") = {1}
    /\ PodCallArgs = namespaces

\* C10: once initLogging has run the level is Debug whenever --debug is
\* set, Info with --verbose alone, Error with neither flag.
C10_DebugIncludesVerbose ==
    pc \notin {"idle", "initFlags", "initLogging"} =>
        level = (IF Debug THEN "debug" ELSE IF Verbose THEN "info" ELSE "error")

====
